---- MODULE Spec2Model ----
(***************************************************************************)
(* The Last Bounce verification API: the per-client rate limiter           *)
(* (lib/rate-limit.ts), the three-way verifier (lib/verifier.ts) and the   *)
(* verify handler (api/verify.ts) that gates the second by the first.      *)
(*                                                                         *)
(* JavaScript values are records [t, s, a]: t is the typeof-like tag, s    *)
(* the text of a string, a the elements of an array.  A Buffer is modelled *)
(* by its byte length, the only thing the verifier reads of it.            *)
(***************************************************************************)
EXTENDS Integers, Sequences, FiniteSets, TLC

(***************************************************************************)
(* Bounds of the model.  rateLimit takes its configuration as a parameter; *)
(* the source's default is 100 requests per 60000 ms, the model runs the   *)
(* same code at a configuration small enough to exhaust a window.          *)
(***************************************************************************)
MaxRequests == 3      \* config.maxRequests of the checked configuration
WindowMs    == 2      \* config.windowMs of the checked configuration
MaxTime     == 4      \* Date.now() ranges over 0..MaxTime

\* the handler invocations that can be in flight at once
Handlers == {"h1", "h2"}

(***************************************************************************)
(* JavaScript values.                                                      *)
(***************************************************************************)
Undef     == [t |-> "undefined", s |-> "", a |-> <<>>]
Str(x)    == [t |-> "string", s |-> x, a |-> <<>>]
Num       == [t |-> "number", s |-> "42", a |-> <<>>]
Obj       == [t |-> "object", s |-> "", a |-> <<>>]
Arr(es)   == [t |-> "array", s |-> "", a |-> es]

EUndef    == [t |-> "undefined", s |-> ""]
EStr(x)   == [t |-> "string", s |-> x]
ENum      == [t |-> "number", s |-> "7"]

\* !v is false: the value is truthy
Truthy(v) == CASE v.t = "undefined" -> FALSE
               [] v.t = "string"    -> v.s # ""
               [] OTHER             -> TRUE

Char(s, i) == SubSeq(s, i, i)

\* String.prototype.startsWith
startsWith(s, p) == Len(s) >= Len(p) /\ SubSeq(s, 1, Len(p)) = p


(***************************************************************************)
(* lib/rate-limit.ts                                                       *)
(***************************************************************************)
\* The configuration the handler runs with (rateLimit's default argument).
DEFAULT_CONFIG == [maxRequests |-> MaxRequests, windowMs |-> WindowMs]

RECURSIVE FirstComma(_, _)
\* index of the first ',' of s at or after i, 0 when there is none
FirstComma(s, i) == IF i > Len(s) THEN 0
                    ELSE IF Char(s, i) = "," THEN i
                    ELSE FirstComma(s, i + 1)

\* s.split(',')[0]
SplitFirst(s) == LET i == FirstComma(s, 1)
                 IN  IF i = 0 THEN s ELSE SubSeq(s, 1, i - 1)

WhiteSpace == {" ", "\t"}

RECURSIVE TrimLeft(_)
TrimLeft(s) == IF Len(s) > 0 /\ Char(s, 1) \in WhiteSpace
               THEN TrimLeft(SubSeq(s, 2, Len(s))) ELSE s

RECURSIVE TrimRight(_)
TrimRight(s) == IF Len(s) > 0 /\ Char(s, Len(s)) \in WhiteSpace
                THEN TrimRight(SubSeq(s, 1, Len(s) - 1)) ELSE s

\* String.prototype.trim
Trim(s) == TrimRight(TrimLeft(s))

\* variant: x-real-ip is returned without looking at its type
getClientId_AnyRealIp(req) ==
    IF req.forwarded.t = "string" THEN Trim(SplitFirst(req.forwarded.s))
    ELSE IF req.realIp.t # "undefined" THEN req.realIp.s
    ELSE "unknown"

\* getClientId(req): the client identity of a request, from its headers
getClientId(req) ==
    IF req.forwarded.t = "string" THEN Trim(SplitFirst(req.forwarded.s))
    ELSE IF req.realIp.t = "string" THEN req.realIp.s
    ELSE "unknown"

\* variant: the sweep deletes nothing
Evict_None(store, t) == store

\* the sweep "Clean up expired entries": every record with resetAt < now goes
Evict(store, t) ==
    [k \in {c \in DOMAIN store : ~(store[c].resetAt < t)} |-> store[k]]

\* variant: one record object is shared by every key of the map
MapSet_Shared(store, k, rec) == [c \in DOMAIN store \cup {k} |-> rec]

\* requests.set(clientId, record)
MapSet(store, k, rec) ==
    [c \in DOMAIN store \cup {k} |-> IF c = k THEN rec ELSE store[c]]

\* variant: only a missing record opens a new window
NewWindow_MissingOnly(store, clientId, t) == clientId \notin DOMAIN store

\* record is missing or its window has elapsed: the "New window" branch
NewWindow(store, clientId, t) ==
    clientId \notin DOMAIN store \/ store[clientId].resetAt < t

\* variant: the limit test lets one request too many through
OverLimit_Strict(record, config) == record.count > config.maxRequests

\* the "over limit" test of an existing record
OverLimit(record, config) == record.count >= config.maxRequests

\* variant: a new window that does not count the request that opens it
FreshRecord_ZeroCount(t, config) == [count |-> 0, resetAt |-> t + config.windowMs]

\* the record of a new window
FreshRecord(t, config) == [count |-> 1, resetAt |-> t + config.windowMs]

\* variant: the increment is made on a copy and never reaches the store
rateLimit_LostIncrement(store, clientId, t, config) ==
    LET swept == Evict(store, t) IN
    IF NewWindow(swept, clientId, t)
    THEN LET record == FreshRecord(t, config) IN
         [store  |-> MapSet(swept, clientId, record),
          result |-> [success |-> TRUE,
                      remaining |-> config.maxRequests - 1,
                      resetAt |-> record.resetAt]]
    ELSE IF OverLimit(swept[clientId], config)
    THEN [store  |-> swept,
          result |-> [success |-> FALSE, remaining |-> 0,
                      resetAt |-> swept[clientId].resetAt]]
    ELSE LET record == [swept[clientId] EXCEPT !.count = @ + 1] IN
         [store  |-> swept,
          result |-> [success |-> TRUE,
                      remaining |-> config.maxRequests - record.count,
                      resetAt |-> record.resetAt]]

\* variant: remaining is computed before the request is counted
rateLimit_StaleRemaining(store, clientId, t, config) ==
    LET swept == Evict(store, t) IN
    IF NewWindow(swept, clientId, t)
    THEN LET record == FreshRecord(t, config) IN
         [store  |-> MapSet(swept, clientId, record),
          result |-> [success |-> TRUE,
                      remaining |-> config.maxRequests - 1,
                      resetAt |-> record.resetAt]]
    ELSE IF OverLimit(swept[clientId], config)
    THEN [store  |-> swept,
          result |-> [success |-> FALSE, remaining |-> 0,
                      resetAt |-> swept[clientId].resetAt]]
    ELSE LET record == [swept[clientId] EXCEPT !.count = @ + 1] IN
         [store  |-> MapSet(swept, clientId, record),
          result |-> [success |-> TRUE,
                      remaining |-> config.maxRequests - swept[clientId].count,
                      resetAt |-> record.resetAt]]

\* variant: every allowed request moves the end of the window
rateLimit_Sliding(store, clientId, t, config) ==
    LET swept == Evict(store, t) IN
    IF NewWindow(swept, clientId, t)
    THEN LET record == FreshRecord(t, config) IN
         [store  |-> MapSet(swept, clientId, record),
          result |-> [success |-> TRUE,
                      remaining |-> config.maxRequests - 1,
                      resetAt |-> record.resetAt]]
    ELSE IF OverLimit(swept[clientId], config)
    THEN [store  |-> swept,
          result |-> [success |-> FALSE, remaining |-> 0,
                      resetAt |-> swept[clientId].resetAt]]
    ELSE LET record == [count |-> swept[clientId].count + 1,
                        resetAt |-> t + config.windowMs] IN
         [store  |-> MapSet(swept, clientId, record),
          result |-> [success |-> TRUE,
                      remaining |-> config.maxRequests - record.count,
                      resetAt |-> record.resetAt]]

\* rateLimit(req, config) at Date.now() = t: the store after the call and
\* the RateLimitResult.  The function has no await: it runs in one step.
rateLimit(store, clientId, t, config) ==
    LET swept == Evict(store, t) IN
    IF NewWindow(swept, clientId, t)
    THEN LET record == FreshRecord(t, config) IN
         [store  |-> MapSet(swept, clientId, record),
          result |-> [success |-> TRUE,
                      remaining |-> config.maxRequests - 1,
                      resetAt |-> record.resetAt]]
    ELSE IF OverLimit(swept[clientId], config)
    THEN [store  |-> swept,
          result |-> [success |-> FALSE, remaining |-> 0,
                      resetAt |-> swept[clientId].resetAt]]
    ELSE LET record == [swept[clientId] EXCEPT !.count = @ + 1] IN
         [store  |-> MapSet(swept, clientId, record),
          result |-> [success |-> TRUE,
                      remaining |-> config.maxRequests - record.count,
                      resetAt |-> record.resetAt]]

\* rateLimit(req, config) from "Get or create record" on: the call with the
\* loop "Clean up expired entries" left out
rateLimit_NoSweep(store, clientId, t, config) ==
    LET swept == store IN
    IF NewWindow(swept, clientId, t)
    THEN LET record == FreshRecord(t, config) IN
         [store  |-> MapSet(swept, clientId, record),
          result |-> [success |-> TRUE,
                      remaining |-> config.maxRequests - 1,
                      resetAt |-> record.resetAt]]
    ELSE IF OverLimit(swept[clientId], config)
    THEN [store  |-> swept,
          result |-> [success |-> FALSE, remaining |-> 0,
                      resetAt |-> swept[clientId].resetAt]]
    ELSE LET record == [swept[clientId] EXCEPT !.count = @ + 1] IN
         [store  |-> MapSet(swept, clientId, record),
          result |-> [success |-> TRUE,
                      remaining |-> config.maxRequests - record.count,
                      resetAt |-> record.resetAt]]

(***************************************************************************)
(* lib/verifier.ts                                                         *)
(***************************************************************************)
VALID_ROOTS ==
    {"0x1234567890abcdef1234567890abcdef1234567890abcdef1234567890abcdef"}

\* a value that destructuring ([root] = v) can iterate
Iterable(v) == v.t \in {"array", "string"}

\* what iterating v yields: the entries of an array, the characters of a string
Elems(v) == IF v.t = "array" THEN v.a
            ELSE [i \in 1..Len(v.s) |-> EStr(Char(v.s, i))]

\* the i-th destructured name: undefined past the end
At(es, i) == IF i <= Len(es) THEN es[i] ELSE EUndef

\* The body of verifyZKProof's try block: "true", "false", or "throw" when
\* an exception is raised inside it.
ZKProofTry(proof, publicInputs) ==
    IF proof.length = 0 THEN "false"
    ELSE IF ~Truthy(publicInputs) THEN "false"
    ELSE IF Iterable(publicInputs) /\ Len(Elems(publicInputs)) < 2 THEN "false"
    ELSE IF ~Iterable(publicInputs) THEN "throw"   \* .length is undefined, then [root, nullifierHash] = v throws
    ELSE LET root          == At(Elems(publicInputs), 1)
             nullifierHash == At(Elems(publicInputs), 2)
         IN  IF root.t # "string" THEN "throw"     \* root.startsWith is not a function
             ELSE IF ~startsWith(root.s, "0x") THEN "false"
             ELSE IF nullifierHash.t # "string" THEN "throw"
             ELSE IF ~startsWith(nullifierHash.s, "0x") THEN "false"
             ELSE "true"

\* variant: the catch clause logs the exception and throws it again
ZKProofCatch_Rethrow == [ret |-> FALSE, caught |-> TRUE, thrown |-> TRUE]

\* what the catch clause of verifyZKProof does with an exception of the try
\* block: it is logged and becomes the return value false
ZKProofCatch == [ret |-> FALSE, caught |-> TRUE, thrown |-> FALSE]

\* verifyZKProof(proof, publicInputs): ret is the promised boolean, caught
\* tells that a fault was raised inside, thrown that it left the function
verifyZKProof(proof, publicInputs) ==
    LET out == ZKProofTry(proof, publicInputs)
    IN  IF out = "throw" THEN ZKProofCatch
        ELSE [ret |-> (out = "true"), caught |-> FALSE, thrown |-> FALSE]

\* variant: the signature width is not checked
verifyTagAuth_NoLengthCheck(tagUid, challenge, signature) ==
    IF ~Truthy(tagUid) \/ challenge.length = 0 \/ signature.length = 0
    THEN FALSE
    ELSE TRUE

\* verifyTagAuth(tagUid, challenge, signature)
verifyTagAuth(tagUid, challenge, signature) ==
    IF ~Truthy(tagUid) \/ challenge.length = 0 \/ signature.length = 0
    THEN FALSE
    ELSE IF signature.length # 16 THEN FALSE
    ELSE TRUE

\* the contents of the Set object VALID_ROOTS
VARIABLE validRoots

\* variant: every root that is a string is taken as trusted
verifyRootIn_AnyString(set, root) == root.t = "string"

\* set.has(root), on a Set of strings: SameValueZero, no coercion
verifyRootIn(set, root) == root.t = "string" /\ root.s \in set

\* verifyRoot(root): VALID_ROOTS.has(root)
verifyRoot(root) == verifyRootIn(validRoots, root)

\* variant: a root that was looked up is remembered in the set
verifyRootEffect_Remembers(set, root) ==
    IF root.t = "string" THEN set \cup {root.s} ELSE set

\* the contents verifyRoot(root) leaves in the set: has() only reads
verifyRootEffect(set, root) == set

\* a verifyProof invocation that has not started
NoCall == [st |-> "none", root |-> EUndef, proofValid |-> FALSE,
           zkCaught |-> FALSE, tagAuthValid |-> FALSE, rootValid |-> FALSE,
           authentic |-> FALSE, calls |-> {}]

\* verifyProof(input) up to its await: [root] = input.publicInputs, then
\* the call of verifyZKProof.  st = "rejected": the promise is rejected.
verifyProofEnter(input) ==
    IF ~Iterable(input.publicInputs)
    THEN [NoCall EXCEPT !.st = "rejected"]
    ELSE LET root == At(Elems(input.publicInputs), 1)
             zk   == verifyZKProof(input.proof, input.publicInputs)
         IN  IF zk.thrown
             THEN [NoCall EXCEPT !.st = "rejected", !.root = root,
                                 !.zkCaught = zk.caught,
                                 !.calls = {"verifyZKProof"}]
             ELSE [NoCall EXCEPT !.st = "awaitZK", !.root = root,
                                 !.proofValid = zk.ret,
                                 !.zkCaught = zk.caught,
                                 !.calls = {"verifyZKProof"}]

\* variant: the root check is left out of the conjunction
verifyProofResume_NoRoot(inv, input) ==
    LET tagAuthValid == verifyTagAuth(input.tagUid, input.challenge,
                                      input.tagSignature)
        rootValid    == verifyRoot(inv.root)
    IN  [inv EXCEPT !.st = "resolved",
                    !.tagAuthValid = tagAuthValid,
                    !.rootValid = rootValid,
                    !.authentic = inv.proofValid /\ tagAuthValid,
                    !.calls = @ \cup {"verifyTagAuth", "verifyRoot"}]

\* variant: the later sub-checks are skipped once the proof is invalid
verifyProofResume_ShortCircuit(inv, input) ==
    IF ~inv.proofValid
    THEN [inv EXCEPT !.st = "resolved"]
    ELSE LET tagAuthValid == verifyTagAuth(input.tagUid, input.challenge,
                                           input.tagSignature)
             rootValid    == verifyRoot(inv.root)
         IN  [inv EXCEPT !.st = "resolved",
                         !.tagAuthValid = tagAuthValid,
                         !.rootValid = rootValid,
                         !.authentic = inv.proofValid /\ tagAuthValid /\ rootValid,
                         !.calls = @ \cup {"verifyTagAuth", "verifyRoot"}]

\* verifyProof(input) after its await, with the trusted roots being set:
\* the two other sub-checks, the conjunction and the returned
\* VerificationResult
verifyProofResumeIn(set, inv, input) ==
    LET tagAuthValid == verifyTagAuth(input.tagUid, input.challenge,
                                      input.tagSignature)
        rootValid    == verifyRootIn(set, inv.root)
    IN  [inv EXCEPT !.st = "resolved",
                    !.tagAuthValid = tagAuthValid,
                    !.rootValid = rootValid,
                    !.authentic = inv.proofValid /\ tagAuthValid /\ rootValid,
                    !.calls = @ \cup {"verifyTagAuth", "verifyRoot"}]

\* verifyProof(input) after its await, as the module runs it
verifyProofResume(inv, input) == verifyProofResumeIn(validRoots, inv, input)

(***************************************************************************)
(* api/verify.ts: the handler                                              *)
(***************************************************************************)
\* the characters Buffer.from(s, 'base64') decodes (base64 and base64url)
B64Alphabet ==
    {"A","B","C","D","E","F","G","H","I","J","K","L","M","N","O","P","Q",
     "R","S","T","U","V","W","X","Y","Z","a","b","c","d","e","f","g","h",
     "i","j","k","l","m","n","o","p","q","r","s","t","u","v","w","x","y",
     "z","0","1","2","3","4","5","6","7","8","9","+","/","-","_"}

RECURSIVE B64Count(_, _)
\* the base64 characters of s from i on, up to the first padding character
B64Count(s, i) ==
    IF i > Len(s) \/ Char(s, i) = "=" THEN 0
    ELSE (IF Char(s, i) \in B64Alphabet THEN 1 ELSE 0) + B64Count(s, i + 1)

\* Buffer.from(v, 'base64'): six bits a character, whole bytes only
BufferFrom(v) ==
    CASE v.t = "string" -> [ok |-> TRUE, length |-> (B64Count(v.s, 1) * 6) \div 8]
      [] v.t = "array"  -> [ok |-> TRUE, length |-> Len(v.a)]
      [] OTHER          -> [ok |-> FALSE, length |-> 0]   \* TypeError

NoDetails == [present |-> FALSE, proofValid |-> FALSE,
              tagAuthValid |-> FALSE, rootValid |-> FALSE]

NoResp == [status |-> 0, json |-> FALSE, success |-> FALSE,
           authentic |-> FALSE, error |-> "", details |-> NoDetails]

\* res.status(status).json({success: false, authentic: false, error})
ErrorResp(status, error) ==
    [status |-> status, json |-> TRUE, success |-> FALSE,
     authentic |-> FALSE, error |-> error, details |-> NoDetails]

\* res.status(200).json({success: true, authentic, details})
OkResp(result) ==
    [status |-> 200, json |-> TRUE, success |-> TRUE,
     authentic |-> result.authentic, error |-> "",
     details |-> [present |-> TRUE, proofValid |-> result.proofValid,
                  tagAuthValid |-> result.tagAuthValid,
                  rootValid |-> result.rootValid]]

\* req.body when the request carries none
NoBody == [present |-> FALSE, proof |-> Undef, publicInputs |-> Undef,
           tagSignature |-> Undef, challenge |-> Undef, tagUid |-> Undef]

\* the "Validate request body" test: some required field is falsy
MissingFields(b) ==
    \/ ~Truthy(b.proof)
    \/ ~Truthy(b.publicInputs)
    \/ ~Truthy(b.tagSignature)
    \/ ~Truthy(b.challenge)
    \/ ~Truthy(b.tagUid)

\* the three Buffer.from calls of the argument of verifyProof all succeed
BuffersDecode(b) ==
    /\ BufferFrom(b.proof).ok
    /\ BufferFrom(b.tagSignature).ok
    /\ BufferFrom(b.challenge).ok

\* the VerificationInput the handler builds from the body
InputOf(b) ==
    [proof        |-> [length |-> BufferFrom(b.proof).length],
     publicInputs |-> b.publicInputs,
     tagSignature |-> [length |-> BufferFrom(b.tagSignature).length],
     challenge    |-> [length |-> BufferFrom(b.challenge).length],
     tagUid       |-> b.tagUid]

(***************************************************************************)
(* The requests and inputs the model draws from.                           *)
(***************************************************************************)
GoodRoot    == "0x1234567890abcdef1234567890abcdef1234567890abcdef1234567890abcdef"
UnknownRoot == "0xdeadbeef"

GoodProof     == Str("SGVsbG8gV29ybGQ=")            \* 11 bytes
GoodSignature == Str("AAAAAAAAAAAAAAAAAAAAAA==")    \* 16 bytes
GoodChallenge == Str("Y2hhbGxlbmdl")                \* 9 bytes
GoodUid       == Str("E004012345678910")
GoodInputs    == Arr(<<EStr(GoodRoot), EStr("0xabc")>>)

ProofValues     == {GoodProof, Undef, Str(""), Str("!!!!"), Num}
SignatureValues == {GoodSignature, Undef, Str("c2lnbmF0dXJl"), Str("====")}
ChallengeValues == {GoodChallenge, Undef, Str("!!")}
UidValues       == {GoodUid, Undef, Str("")}
PublicInputsValues ==
    {GoodInputs, Undef, Num, Obj, Str("0x"),
     Arr(<<>>),
     Arr(<<EStr(GoodRoot)>>),
     Arr(<<ENum, ENum>>),
     Arr(<<EStr(UnknownRoot), EStr("0xabc")>>),
     Arr(<<EStr("1234"), EStr("0xabc")>>),
     Arr(<<EStr(GoodRoot), EStr("abc")>>),
     Arr(<<EStr(GoodRoot), EUndef>>)}

MkBody(p, i, s, c, u) ==
    [present |-> TRUE, proof |-> p, publicInputs |-> i, tagSignature |-> s,
     challenge |-> c, tagUid |-> u]

\* request bodies: no body at all, and every field varied on its own
Bodies ==
    {NoBody}
    \cup {MkBody(GoodProof, i, GoodSignature, GoodChallenge, GoodUid) :
             i \in PublicInputsValues}
    \cup {MkBody(GoodProof, GoodInputs, s, GoodChallenge, GoodUid) :
             s \in SignatureValues}
    \cup {MkBody(p, GoodInputs, GoodSignature, GoodChallenge, GoodUid) :
             p \in ProofValues}
    \cup {MkBody(GoodProof, GoodInputs, GoodSignature, c, GoodUid) :
             c \in ChallengeValues}
    \cup {MkBody(GoodProof, GoodInputs, GoodSignature, GoodChallenge, u) :
             u \in UidValues}

Methods == {"OPTIONS", "GET", "POST"}

\* header values: absent, a string, or the string[] of a repeated header
ForwardedValues == {Undef, Str(" 1.1.1.1 , 9.9.9.9"), Str("2.2.2.2"), Arr(<<>>)}
RealIpValues    == {Undef, Str("1.1.1.1"), Arr(<<>>)}

\* a request: only a POST carries a body
MkRequests(forwardedValues, realIpValues, bodies) ==
    [method : {"POST"}, forwarded : forwardedValues, realIp : realIpValues,
     body : bodies]
    \cup [method : Methods \ {"POST"}, forwarded : forwardedValues,
          realIp : realIpValues, body : {NoBody}]

\* the requests the handler is run on: one client, every body
Requests == MkRequests({Undef}, {Str("1.1.1.1")}, Bodies)

\* the requests rateLimit is called on directly: every shape of the headers
RLRequests ==
    [method : {"POST"}, forwarded : ForwardedValues, realIp : RealIpValues,
     body : {NoBody}]

\* publicInputs with the '0x' prefix on both leading entries: digits that are
\* not hexadecimal, and a third entry
MoreInputsValues ==
    {Arr(<<EStr(GoodRoot), EStr("0xzz")>>),
     Arr(<<EStr(GoodRoot), EStr("0xabc"), EStr("junk")>>),
     Arr(<<EStr(GoodRoot), EStr("0xabc"), EStr("0xdef")>>)}

\* the inputs of a direct call of verifyProof
VerificationInputs ==
    [proof        : {[length |-> n] : n \in {0, 11}},
     publicInputs : PublicInputsValues \cup MoreInputsValues,
     tagSignature : {[length |-> n] : n \in {0, 9, 16, 17}},
     challenge    : {[length |-> n] : n \in {0, 9}},
     tagUid       : {GoodUid, Str("")}]

NoInput == [proof |-> [length |-> 0], publicInputs |-> Undef,
            tagSignature |-> [length |-> 0], challenge |-> [length |-> 0],
            tagUid |-> Undef]

(***************************************************************************)
(* State.                                                                  *)
(***************************************************************************)
VARIABLES
    now,        \* Date.now()
    requests,   \* the Map of rate-limit records, by client identity
    pc,         \* where each handler invocation stands
    method,     \* req.method of each invocation
    body,       \* req.body of each invocation
    rl,         \* rateLimitResult of each invocation: the field the handler reads
    vp,         \* the verifyProof call of each invocation
    resp,       \* the response each invocation sent
    lastCall,   \* history: the latest rateLimit call of the current millisecond
    win,        \* history: per client, the calls of its current window
    vinput,     \* the input of a direct call of verifyProof
    vcall,      \* the direct call of verifyProof
    vcall2      \* the same call, run beside it against another set of roots

vars == <<now, requests, pc, method, body, rl, vp, resp, lastCall, win,
          vinput, vcall, vcall2, validRoots>>

handlerVars == <<now, requests, pc, method, body, rl, vp, resp, lastCall, win>>

NoResult == [success |-> FALSE, remaining |-> 0, resetAt |-> 0]
NoAnswer == [success |-> FALSE]
NoRecord == [count |-> 0, resetAt |-> 0]
EmptyMap == [c \in {} |-> NoRecord]
NoLastCall == [client |-> "", had |-> FALSE, pre |-> NoRecord,
               result |-> NoResult, k |-> 0, anon |-> FALSE, size |-> 0,
               plain |-> [result |-> NoResult, record |-> NoRecord],
               others |-> EmptyMap]

Init ==
    /\ now = 0
    /\ requests = EmptyMap
    /\ pc = [h \in Handlers |-> "idle"]
    /\ method = [h \in Handlers |-> ""]
    /\ body = [h \in Handlers |-> NoBody]
    /\ rl = [h \in Handlers |-> NoAnswer]
    /\ vp = [h \in Handlers |-> NoCall]
    /\ resp = [h \in Handlers |-> NoResp]
    /\ lastCall = NoLastCall
    /\ win = [c \in {} |-> [start |-> 0, calls |-> 0, admitted |-> 0]]
    /\ vinput = NoInput
    /\ vcall = NoCall
    /\ vcall2 = NoCall
    /\ validRoots = VALID_ROOTS

(***************************************************************************)
(* History of the rate limiter, kept beside the program's state.           *)
(***************************************************************************)
\* The window accounting of client c after a call at time t: a window runs
\* from its first call up to and including start + windowMs; calls counts
\* the calls of the window (it stops counting past maxRequests + 1),
\* admitted those that were allowed.
WinAfter(w, c, t, success) ==
    LET live == [k \in {x \in DOMAIN w : t <= w[x].start + DEFAULT_CONFIG.windowMs}
                    |-> w[k]]
        prev == IF c \in DOMAIN live THEN live[c]
                ELSE [start |-> t, calls |-> 0, admitted |-> 0]
        rec  == [start    |-> prev.start,
                 calls    |-> IF prev.calls > DEFAULT_CONFIG.maxRequests
                              THEN prev.calls ELSE prev.calls + 1,
                 admitted |-> prev.admitted + (IF success THEN 1 ELSE 0)]
    IN  MapSet(live, c, rec)

(***************************************************************************)
(* Actions.  A handler invocation runs from one await to the next without  *)
(* interruption; invocations interleave at their awaits.                   *)
(***************************************************************************)
\* Date.now() advances
Tick ==
    /\ now < MaxTime
    /\ now' = now + 1
    /\ lastCall' = NoLastCall
    /\ UNCHANGED <<requests, pc, method, body, rl, vp, resp, win, vinput, vcall, vcall2, validRoots>>

\* handler, "Handle CORS preflight": res.status(200).end()
HandlerOptions(h, req) ==
    /\ pc[h] \in {"idle", "done"}
    /\ req.method = "OPTIONS"
    /\ pc' = [pc EXCEPT ![h] = "done"]
    /\ method' = [method EXCEPT ![h] = req.method]
    /\ body' = [body EXCEPT ![h] = req.body]
    /\ rl' = [rl EXCEPT ![h] = NoAnswer]
    /\ vp' = [vp EXCEPT ![h] = NoCall]
    /\ resp' = [resp EXCEPT ![h] = [NoResp EXCEPT !.status = 200]]
    /\ UNCHANGED <<now, requests, lastCall, win, vinput, vcall, vcall2, validRoots>>

\* a request with neither a string x-forwarded-for nor a string x-real-ip
Anonymous(req) == req.forwarded.t # "string" /\ req.realIp.t # "string"

\* history: what the call for client c would answer, and the record it would
\* leave for c, were the sweep left out
PlainCall(c) ==
    LET out == rateLimit_NoSweep(requests, c, now, DEFAULT_CONFIG)
    IN  [result |-> out.result, record |-> out.store[c]]

\* history: the records of the clients other than c whose window has not
\* elapsed at now, as they are before the call
LiveOthers(c) ==
    [d \in {x \in DOMAIN requests : x # c /\ ~(requests[x].resetAt < now)}
        |-> requests[d]]

\* the RateLimitResult of rateLimit(req) called at Date.now() = now
RateLimitResult(req) ==
    rateLimit(requests, getClientId(req), now, DEFAULT_CONFIG).result

\* rateLimit(req) is called at Date.now() = now and runs to its return:
\* the store it leaves
RateLimitRun(req) ==
    LET c   == getClientId(req)
        out == rateLimit(requests, c, now, DEFAULT_CONFIG)
        w   == WinAfter(win, c, now, out.result.success)
    IN     /\ requests' = out.store
           /\ win' = w
           /\ lastCall' = [client |-> c,
                           had    |-> c \in DOMAIN requests,
                           pre    |-> IF c \in DOMAIN requests
                                      THEN requests[c] ELSE NoRecord,
                           result |-> out.result,
                           k      |-> w[c].calls,
                           anon   |-> Anonymous(req),
                           size   |-> Cardinality(DOMAIN requests),
                           plain  |-> PlainCall(c),
                           others |-> LiveOthers(c)]

\* variant: the rate limiter is consulted before the method is looked at
HandlerNotPost_Limited(h, req) ==
    /\ pc[h] \in {"idle", "done"}
    /\ req.method \notin {"OPTIONS", "POST"}
    /\ RateLimitRun(req)
    /\ pc' = [pc EXCEPT ![h] = "done"]
    /\ method' = [method EXCEPT ![h] = req.method]
    /\ body' = [body EXCEPT ![h] = req.body]
    /\ rl' = [rl EXCEPT ![h] = NoAnswer]
    /\ vp' = [vp EXCEPT ![h] = NoCall]
    /\ resp' = [resp EXCEPT ![h] = ErrorResp(405, "Method not allowed")]
    /\ UNCHANGED <<now, vinput, vcall, vcall2, validRoots>>

\* handler, "Only allow POST": 405
HandlerNotPost(h, req) ==
    /\ pc[h] \in {"idle", "done"}
    /\ req.method \notin {"OPTIONS", "POST"}
    /\ pc' = [pc EXCEPT ![h] = "done"]
    /\ method' = [method EXCEPT ![h] = req.method]
    /\ body' = [body EXCEPT ![h] = req.body]
    /\ rl' = [rl EXCEPT ![h] = NoAnswer]
    /\ vp' = [vp EXCEPT ![h] = NoCall]
    /\ resp' = [resp EXCEPT ![h] = ErrorResp(405, "Method not allowed")]
    /\ UNCHANGED <<now, requests, lastCall, win, vinput, vcall, vcall2, validRoots>>

\* handler, a POST: the call rateLimit(req), which runs to its return, and
\* the await of its promise
HandlerRateLimit(h, req) ==
    /\ pc[h] \in {"idle", "done"}
    /\ req.method = "POST"
    /\ RateLimitRun(req)
    /\ rl' = [rl EXCEPT ![h] = [success |-> RateLimitResult(req).success]]
    /\ pc' = [pc EXCEPT ![h] = "awaitRateLimit"]
    /\ method' = [method EXCEPT ![h] = req.method]
    /\ body' = [body EXCEPT ![h] = req.body]
    /\ vp' = [vp EXCEPT ![h] = NoCall]
    /\ resp' = [resp EXCEPT ![h] = NoResp]
    /\ UNCHANGED <<now, vinput, vcall, vcall2, validRoots>>

\* variant: the answer of the rate limiter is not looked at
AfterRateLimit_NoGate(rateLimitResult, b) ==
    IF ~b.present THEN "500"
    ELSE IF MissingFields(b) THEN "400"
    ELSE IF ~BuffersDecode(b) THEN "500"
    ELSE "verify"

\* what the handler does with a request once rateLimit has answered, up to
\* its response or its call of verifyProof:
\*   "429", "400", "500" (an exception reached the catch clause), "verify"
AfterRateLimit(rateLimitResult, b) ==
    IF ~rateLimitResult.success THEN "429"
    ELSE IF ~b.present THEN "500"          \* body.proof of undefined throws
    ELSE IF MissingFields(b) THEN "400"
    ELSE IF ~BuffersDecode(b) THEN "500"   \* Buffer.from throws
    ELSE "verify"

\* handler, rate limit exceeded: 429
HandlerTooMany(h) ==
    /\ pc[h] = "awaitRateLimit"
    /\ AfterRateLimit(rl[h], body[h]) = "429"
    /\ pc' = [pc EXCEPT ![h] = "done"]
    /\ resp' = [resp EXCEPT ![h] =
                  ErrorResp(429, "Too many requests. Please try again later.")]
    /\ UNCHANGED <<now, requests, method, body, rl, vp, lastCall, win, vinput, vcall, vcall2, validRoots>>

\* handler, "Validate request body": 400
HandlerBadRequest(h) ==
    /\ pc[h] = "awaitRateLimit"
    /\ AfterRateLimit(rl[h], body[h]) = "400"
    /\ pc' = [pc EXCEPT ![h] = "done"]
    /\ resp' = [resp EXCEPT ![h] = ErrorResp(400, "Missing required fields")]
    /\ UNCHANGED <<now, requests, method, body, rl, vp, lastCall, win, vinput, vcall, vcall2, validRoots>>

\* handler, an exception before verifyProof is called: the catch clause, 500
HandlerThrows(h) ==
    /\ pc[h] = "awaitRateLimit"
    /\ AfterRateLimit(rl[h], body[h]) = "500"
    /\ pc' = [pc EXCEPT ![h] = "done"]
    /\ resp' = [resp EXCEPT ![h] = ErrorResp(500, "Internal server error")]
    /\ UNCHANGED <<now, requests, method, body, rl, vp, lastCall, win, vinput, vcall, vcall2, validRoots>>

\* handler, the call verifyProof({...}): verifyProof runs up to its await
\* of verifyZKProof, or rejects at once
HandlerVerify(h) ==
    /\ pc[h] = "awaitRateLimit"
    /\ AfterRateLimit(rl[h], body[h]) = "verify"
    /\ LET inv == verifyProofEnter(InputOf(body[h]))
       IN  /\ vp' = [vp EXCEPT ![h] = inv]
           /\ pc' = [pc EXCEPT ![h] = IF inv.st = "awaitZK"
                                      THEN "awaitVerifyZK"
                                      ELSE "awaitVerifyProof"]
    /\ UNCHANGED <<now, requests, method, body, rl, resp, lastCall, win, vinput, vcall, vcall2, validRoots>>

\* verifyProof resumes after await verifyZKProof and returns its result
VerifyProofResume(h) ==
    /\ pc[h] = "awaitVerifyZK"
    /\ vp' = [vp EXCEPT ![h] = verifyProofResume(vp[h], InputOf(body[h]))]
    /\ validRoots' = verifyRootEffect(validRoots, vp[h].root)
    /\ pc' = [pc EXCEPT ![h] = "awaitVerifyProof"]
    /\ UNCHANGED <<now, requests, method, body, rl, resp, lastCall, win, vinput, vcall, vcall2>>

\* what the handler answers once the promise of verifyProof is settled
VerifyResponse(inv) ==
    IF inv.st = "resolved" THEN OkResp(inv)
    ELSE ErrorResp(500, "Internal server error")

\* handler resumes after await verifyProof: 200 with the result, or the
\* catch clause
HandlerRespond(h) ==
    /\ pc[h] = "awaitVerifyProof"
    /\ resp' = [resp EXCEPT ![h] = VerifyResponse(vp[h])]
    /\ pc' = [pc EXCEPT ![h] = "done"]
    /\ UNCHANGED <<now, requests, method, body, rl, vp, lastCall, win, vinput, vcall, vcall2, validRoots>>

Next ==
    \/ \E h \in Handlers, req \in Requests : HandlerOptions(h, req)
    \/ \E h \in Handlers, req \in Requests : HandlerNotPost(h, req)
    \/ \E h \in Handlers, req \in Requests : HandlerRateLimit(h, req)
    \/ \E h \in Handlers : HandlerTooMany(h)
    \/ \E h \in Handlers : HandlerBadRequest(h)
    \/ \E h \in Handlers : HandlerThrows(h)
    \/ \E h \in Handlers : HandlerVerify(h)
    \/ \E h \in Handlers : VerifyProofResume(h)
    \/ \E h \in Handlers : HandlerRespond(h)

Spec == Init /\ [][Next]_vars

(***************************************************************************)
(* Direct calls of rateLimit, as time passes.                              *)
(***************************************************************************)
\* await rateLimit(req) by a caller that only looks at the result
RateLimitCall(req) ==
    /\ RateLimitRun(req)
    /\ UNCHANGED <<now, pc, method, body, rl, vp, resp, vinput, vcall, vcall2, validRoots>>

RLNext ==
    \/ Tick
    \/ \E req \in RLRequests : RateLimitCall(req)

RLSpec == Init /\ [][RLNext]_vars

(***************************************************************************)
(* Direct calls of verifyProof, on any VerificationInput.                  *)
(***************************************************************************)
VInit ==
    /\ now = 0
    /\ requests = EmptyMap
    /\ pc = [h \in Handlers |-> "idle"]
    /\ method = [h \in Handlers |-> ""]
    /\ body = [h \in Handlers |-> NoBody]
    /\ rl = [h \in Handlers |-> NoAnswer]
    /\ vp = [h \in Handlers |-> NoCall]
    /\ resp = [h \in Handlers |-> NoResp]
    /\ lastCall = NoLastCall
    /\ win = [c \in {} |-> [start |-> 0, calls |-> 0, admitted |-> 0]]
    /\ vinput \in VerificationInputs
    /\ vcall = NoCall
    /\ vcall2 = NoCall
    /\ validRoots = VALID_ROOTS

\* the set of roots that differs from set in the root alone
OtherRoots(set, root) ==
    IF root.t # "string" THEN set
    ELSE IF root.s \in set THEN set \ {root.s} ELSE set \cup {root.s}

\* verifyProof(vinput) is called and runs up to its await
DirectEnter ==
    /\ vcall.st = "none"
    /\ vcall' = verifyProofEnter(vinput)
    /\ vcall2' = verifyProofEnter(vinput)
    /\ UNCHANGED <<handlerVars, vinput, validRoots>>

\* verifyProof(vinput) resumes and returns
DirectResume ==
    /\ vcall.st = "awaitZK"
    /\ vcall' = verifyProofResume(vcall, vinput)
    /\ vcall2' = verifyProofResumeIn(OtherRoots(validRoots, vcall.root),
                                     vcall2, vinput)
    /\ validRoots' = verifyRootEffect(validRoots, vcall.root)
    /\ UNCHANGED <<handlerVars, vinput>>

VNext == DirectEnter \/ DirectResume

VSpec == VInit /\ [][VNext]_vars

(***************************************************************************)
(* Properties.                                                             *)
(***************************************************************************)
AllSubChecks == {"verifyZKProof", "verifyTagAuth", "verifyRoot"}

\* C1: whenever verifyProof returns a result, authentic is exactly the
\* conjunction of proofValid, tagAuthValid and rootValid.
C1_AuthenticIsConjunction ==
    vcall.st = "resolved" =>
        (vcall.authentic <=>
            (vcall.proofValid /\ vcall.tagAuthValid /\ vcall.rootValid))

\* verifyProof returned with two sub-checks passed and the root unknown
C1_Witness ==
    /\ vcall.st = "resolved"
    /\ vcall.proofValid /\ vcall.tagAuthValid /\ ~vcall.rootValid
    /\ ~vcall.authentic

\* C2: within one window of a client, the k-th call is allowed with
\* remaining = maxRequests - k for k = 1..maxRequests, and every later call
\* is rejected with remaining = 0.
C2_KthCallOfWindow ==
    lastCall.client # "" =>
        IF lastCall.k <= DEFAULT_CONFIG.maxRequests
        THEN /\ lastCall.result.success
             /\ lastCall.result.remaining = DEFAULT_CONFIG.maxRequests - lastCall.k
        ELSE /\ ~lastCall.result.success
             /\ lastCall.result.remaining = 0

\* the call after the maxRequests-th of a window has just been rejected
C2_Witness ==
    /\ lastCall.client # ""
    /\ lastCall.k = DEFAULT_CONFIG.maxRequests + 1
    /\ ~lastCall.result.success
    /\ lastCall.pre.count = DEFAULT_CONFIG.maxRequests

\* a call re-initialised the record of its client and was allowed with a
\* fresh quota
Reinitialised ==
    /\ lastCall.client \in DOMAIN requests
    /\ requests[lastCall.client] =
           [count |-> 1, resetAt |-> now + DEFAULT_CONFIG.windowMs]
    /\ lastCall.result.success
    /\ lastCall.result.remaining = DEFAULT_CONFIG.maxRequests - 1
    /\ lastCall.result.resetAt = now + DEFAULT_CONFIG.windowMs

\* C3 as stated: a call at now >= resetAt of the client's record, now =
\* resetAt included, re-initialises the record (count = 1, resetAt = now +
\* windowMs) and is allowed with remaining = maxRequests - 1.
C3_ResetAtOrAfter ==
    (lastCall.had /\ now >= lastCall.pre.resetAt) => Reinitialised

\* C3 amended: a call at now > resetAt of the client's record re-initialises
\* the record and is allowed with remaining = maxRequests - 1; a call at
\* now = resetAt still belongs to the old window.
C3_ResetAfter ==
    /\ (lastCall.had /\ now > lastCall.pre.resetAt) => Reinitialised
    /\ (lastCall.had /\ now = lastCall.pre.resetAt) =>
           /\ requests[lastCall.client].resetAt = lastCall.pre.resetAt
           /\ lastCall.result.resetAt = lastCall.pre.resetAt
           /\ lastCall.result.success =
                  (lastCall.pre.count < DEFAULT_CONFIG.maxRequests)

\* a client that had exhausted its quota called after its window elapsed
C3_Witness ==
    /\ lastCall.had
    /\ now > lastCall.pre.resetAt
    /\ lastCall.pre.count = DEFAULT_CONFIG.maxRequests
    /\ lastCall.result.success

\* C4: however the handler invocations interleave, the requests admitted in
\* one window of a client never exceed maxRequests, and the record counts
\* every admission (no increment is lost).
C4_AdmissionAtomic ==
    \A c \in DOMAIN win :
        /\ win[c].admitted <= DEFAULT_CONFIG.maxRequests
        /\ c \in DOMAIN requests => requests[c].count = win[c].admitted

\* two invocations are in flight at once, both past rateLimit, when one
\* slot remained: one was admitted and the other rejected
C4_Witness ==
    \E h1, h2 \in Handlers :
        /\ h1 # h2
        /\ pc[h1] = "awaitRateLimit" /\ pc[h2] = "awaitRateLimit"
        /\ rl[h1].success /\ ~rl[h2].success
        /\ \E c \in DOMAIN win : win[c].admitted = DEFAULT_CONFIG.maxRequests

\* C5: verifyProof runs for a request only after rateLimit answered success
\* for it; a POST the limiter rejects is answered 429 without verifyProof.
C5_VerifyOnlyWhenAdmitted ==
    \A h \in Handlers :
        /\ vp[h].st # "none" => (method[h] = "POST" /\ rl[h].success)
        /\ pc[h] \in {"awaitVerifyZK", "awaitVerifyProof"} => rl[h].success
        /\ (pc[h] = "done" /\ method[h] = "POST" /\ ~rl[h].success) =>
               (resp[h].status = 429 /\ vp[h].st = "none")

\* a rejected POST has been answered
C5_Witness ==
    \E h \in Handlers :
        /\ pc[h] = "done" /\ method[h] = "POST" /\ ~rl[h].success
        /\ resp[h].status = 429
        /\ ~MissingFields(body[h])

\* a request without a body, or with a missing or empty required field
Malformed(b) == ~b.present \/ MissingFields(b)

\* C6 as stated: a rejected POST gets 429; an admitted POST gets 400 when it
\* is malformed (missing body included), 500 on an internal fault, and 200
\* with success = true otherwise, whatever the verdict.
C6_ResponseClasses ==
    \A h \in Handlers :
        (pc[h] = "done" /\ method[h] = "POST") =>
            IF ~rl[h].success
            THEN resp[h].status = 429 /\ ~resp[h].success
            ELSE IF Malformed(body[h])
            THEN resp[h].status = 400 /\ ~resp[h].success
            ELSE IF ~BuffersDecode(body[h]) \/ vp[h].st = "rejected"
            THEN resp[h].status = 500 /\ ~resp[h].success
            ELSE resp[h].status = 200 /\ resp[h].success

\* C7 as stated: verifyProof never rejects on an input the handler
\* forwards, and reports false for the sub-check a malformed field affects.
C7_VerifyProofNeverThrows ==
    \A h \in Handlers :
        /\ vp[h].st # "rejected"
        /\ vp[h].st = "resolved" =>
             /\ ZKProofTry(InputOf(body[h]).proof,
                           InputOf(body[h]).publicInputs) # "true"
                    => ~vp[h].proofValid
             /\ (InputOf(body[h]).tagSignature.length = 0
                 \/ InputOf(body[h]).challenge.length = 0)
                    => ~vp[h].tagAuthValid

\* the try block of verifyZKProof raises an exception on the request of h
FaultInsideVerifier(h) ==
    /\ vp[h].st # "none"
    /\ Iterable(body[h].publicInputs)
    /\ ZKProofTry(InputOf(body[h]).proof, body[h].publicInputs) = "throw"

C9_AllSubChecksRun ==
    vcall.st = "resolved" =>
        /\ vcall.calls = AllSubChecks
        /\ vcall.proofValid =
               verifyZKProof(vinput.proof, vinput.publicInputs).ret
        /\ vcall.tagAuthValid =
               verifyTagAuth(vinput.tagUid, vinput.challenge, vinput.tagSignature)
        /\ vcall.rootValid = verifyRoot(At(Elems(vinput.publicInputs), 1))

\* verifyProof returned after the first sub-check failed and the two later
\* ones passed
C9_Witness ==
    /\ vcall.st = "resolved"
    /\ ~vcall.proofValid
    /\ vcall.tagAuthValid /\ vcall.rootValid
    /\ vcall.calls = AllSubChecks

\* the preconditions of verifyTagAuth are violated
BadTagInput(in) ==
    \/ in.tagUid.s = ""
    \/ in.challenge.length = 0
    \/ in.tagSignature.length # 16

\* C10: verifyTagAuth is false whenever tagUid is empty, challenge is empty
\* or the signature is not exactly 16 bytes, whatever the other arguments;
\* verifyProof then reports tagAuthValid = false and authentic = false.
C10_TagPreconditions ==
    BadTagInput(vinput) =>
        /\ ~verifyTagAuth(vinput.tagUid, vinput.challenge, vinput.tagSignature)
        /\ vcall.st = "resolved" => (~vcall.tagAuthValid /\ ~vcall.authentic)

\* verifyProof returned on a 17-byte signature with everything else valid
C10_Witness ==
    /\ vcall.st = "resolved"
    /\ vinput.tagSignature.length = 17
    /\ vinput.tagUid.s # "" /\ vinput.challenge.length > 0
    /\ vcall.proofValid /\ vcall.rootValid
    /\ ~vcall.tagAuthValid

\* an entry of publicInputs that is a string starting with '0x'
HasHexPrefix(e) == e.t = "string" /\ startsWith(e.s, "0x")

\* the input fails a precondition of verifyZKProof: the proof is empty, or
\* publicInputs has fewer than two entries, or its root or its nullifier
\* hash does not start with '0x'
BadZKInput(in) ==
    \/ in.proof.length = 0
    \/ /\ Iterable(in.publicInputs)
       /\ \/ Len(Elems(in.publicInputs)) < 2
          \/ ~HasHexPrefix(At(Elems(in.publicInputs), 1))
          \/ ~HasHexPrefix(At(Elems(in.publicInputs), 2))

\* C11: on an empty proof, on publicInputs with fewer than two entries, or
\* on a root or nullifier hash without the '0x' prefix, verifyZKProof returns
\* false without reaching the place where the verifier is invoked, and
\* verifyProof reports proofValid = false and authentic = false.
C11_MalformedProofReported ==
    BadZKInput(vinput) =>
        /\ ZKProofTry(vinput.proof, vinput.publicInputs) # "true"
        /\ ~verifyZKProof(vinput.proof, vinput.publicInputs).ret
        /\ vcall.st # "none" =>
             /\ vcall.st \in {"awaitZK", "resolved"}
             /\ ~vcall.proofValid
             /\ ~vcall.authentic

HexDigits ==
    {"0", "1", "2", "3", "4", "5", "6", "7", "8", "9",
     "a", "b", "c", "d", "e", "f", "A", "B", "C", "D", "E", "F"}

\* a well-formed hex field element: '0x' followed by hexadecimal digits only
HexFieldElement(e) ==
    /\ HasHexPrefix(e)
    /\ \A i \in 3..Len(e.s) : Char(e.s, i) \in HexDigits

\* C12: publicInputs in which some entry, at any position, is not a
\* well-formed hex field element is rejected by the verifier: proofValid is
\* false.
C12_EveryEntryHex ==
    ( /\ vinput.publicInputs.t = "array"
      /\ \E i \in 1..Len(vinput.publicInputs.a) :
            ~HexFieldElement(vinput.publicInputs.a[i]) )
    => (vcall.st \in {"awaitZK", "resolved"} => ~vcall.proofValid)

\* C13: of two verifyProof calls on the same request, against two sets of
\* trusted roots that differ only in whether the claimed root is a member,
\* both report the same proofValid and the same tagAuthValid, and the call
\* whose set lacks the root reports rootValid = false and authentic = false.
C13_RootSetMovesRootValidOnly ==
    (vcall.st = "resolved" /\ vcall.root.t = "string") =>
        /\ vcall2.st = "resolved"
        /\ vcall2.proofValid = vcall.proofValid
        /\ vcall2.tagAuthValid = vcall.tagAuthValid
        /\ LET absent == IF vcall.root.s \in validRoots THEN vcall2 ELSE vcall
           IN  ~absent.rootValid /\ ~absent.authentic

\* an authentic request is not authentic once its root is taken out of the
\* set, its proof and tag still being valid
C13_Witness ==
    /\ vcall.st = "resolved" /\ vcall2.st = "resolved"
    /\ vcall.root.t = "string"
    /\ vcall.authentic
    /\ vcall2.proofValid /\ vcall2.tagAuthValid
    /\ ~vcall2.rootValid /\ ~vcall2.authentic

\* C14: verifyRoot(root) is true exactly when root is in the set of trusted
\* roots, is false without throwing for an unknown or undefined root, and
\* no sequence of verifyProof calls changes the contents of the set.
C14_VerifyRootIsMembership ==
    /\ validRoots = VALID_ROOTS
    /\ \A h \in Handlers :
         vp[h].st = "resolved" =>
             vp[h].rootValid =
                 (vp[h].root.t = "string" /\ vp[h].root.s \in VALID_ROOTS)

\* three verifyProof calls have returned: on a trusted root, on an unknown
\* root and on an undefined root
C14_Witness ==
    \E h, g \in Handlers :
        /\ vp[h].st = "resolved" /\ vp[g].st = "resolved"
        /\ vp[h].root.t = "undefined" /\ ~vp[h].rootValid
        /\ vp[g].root.t = "string" /\ vp[g].root.s = GoodRoot
        /\ vp[g].rootValid

\* C15: every request with neither a string x-forwarded-for nor a string
\* x-real-ip is given the identity 'unknown'; such requests share one record
\* and one quota: at most maxRequests of them are admitted per window, and
\* each of them is answered by the limiter according to that count.
C15_AnonymousShareUnknown ==
    lastCall.anon =>
        /\ lastCall.client = "unknown"
        /\ "unknown" \in DOMAIN requests
        /\ win["unknown"].admitted <= DEFAULT_CONFIG.maxRequests
        /\ requests["unknown"].count = win["unknown"].admitted
        /\ lastCall.result.success = (lastCall.k <= DEFAULT_CONFIG.maxRequests)

\* a request without usable headers was rejected: the shared quota is spent
C15_Witness ==
    /\ lastCall.anon
    /\ ~lastCall.result.success
    /\ requests["unknown"].count = DEFAULT_CONFIG.maxRequests

\* the latest call deleted the record of a client other than the caller
SweptOthers ==
    /\ lastCall.client # ""
    /\ Cardinality(DOMAIN requests)
          < lastCall.size + (IF lastCall.had THEN 0 ELSE 1)

\* C16: the eviction sweep never changes the outcome of a call: the result
\* and the record of the calling client are those of the same call with the
\* eviction loop removed.
C16_SweepInvisible ==
    lastCall.client # "" =>
        /\ lastCall.result = lastCall.plain.result
        /\ requests[lastCall.client] = lastCall.plain.record

\* a call whose sweep deleted another client's record, and one whose caller
\* had an elapsed record of its own
C16_Witness ==
    /\ SweptOthers
    /\ lastCall.had /\ lastCall.pre.resetAt < now

\* C17: a call for client A at now leaves the record of every other client
\* whose window has not elapsed at now unchanged, and A's result depends
\* only on A's own record, now and the configuration.
C17_RecordsNotShared ==
    lastCall.client # "" =>
        /\ \A d \in DOMAIN lastCall.others :
              d \in DOMAIN requests /\ requests[d] = lastCall.others[d]
        /\ LET own == IF lastCall.had
                      THEN MapSet(EmptyMap, lastCall.client, lastCall.pre)
                      ELSE EmptyMap
           IN  lastCall.result =
                   rateLimit(own, lastCall.client, now, DEFAULT_CONFIG).result

\* a client was rejected while another client's window was open, and that
\* client's record is as it was
C17_Witness ==
    /\ lastCall.client # ""
    /\ ~lastCall.result.success
    /\ \E d \in DOMAIN lastCall.others :
          /\ lastCall.others[d].count < DEFAULT_CONFIG.maxRequests
          /\ requests[d] = lastCall.others[d]

\* C18: after every rateLimit call at now the store holds no record with
\* resetAt earlier than now and holds a record for the calling client, so
\* it holds records only of clients seen within the last windowMs.
C18_StoreSwept ==
    lastCall.client # "" =>
        /\ \A c \in DOMAIN requests : ~(requests[c].resetAt < now)
        /\ lastCall.client \in DOMAIN requests
        /\ \A c \in DOMAIN requests :
              /\ c \in DOMAIN win
              /\ now - win[c].start <= DEFAULT_CONFIG.windowMs

\* a call has deleted the elapsed record of another client
C18_Witness ==
    /\ SweptOthers
    /\ lastCall.client \in DOMAIN requests

\* C19: every stored record has 1 <= count <= maxRequests, every result has
\* 0 <= remaining <= maxRequests - 1, and every allowed result has
\* remaining = maxRequests - count of the caller's record after the call.
C19_CountAndRemainingBounds ==
    /\ \A c \in DOMAIN requests :
          1 <= requests[c].count
              /\ requests[c].count <= DEFAULT_CONFIG.maxRequests
    /\ lastCall.client # "" =>
          /\ 0 <= lastCall.result.remaining
          /\ lastCall.result.remaining <= DEFAULT_CONFIG.maxRequests - 1
          /\ lastCall.result.success =>
                lastCall.result.remaining =
                    DEFAULT_CONFIG.maxRequests - requests[lastCall.client].count

\* the request that uses up the quota was allowed with remaining = 0
C19_Witness ==
    /\ lastCall.client # ""
    /\ lastCall.result.success
    /\ lastCall.result.remaining = 0
    /\ requests[lastCall.client].count = DEFAULT_CONFIG.maxRequests

\* C20: the window is fixed: a call inside the client's current window never
\* changes resetAt, and a rejected call changes neither count nor resetAt.
C20_WindowFixed ==
    /\ (lastCall.had /\ ~(lastCall.pre.resetAt < now)) =>
          /\ requests[lastCall.client].resetAt = lastCall.pre.resetAt
          /\ lastCall.result.resetAt = lastCall.pre.resetAt
    /\ (lastCall.client # "" /\ ~lastCall.result.success) =>
          /\ lastCall.had
          /\ requests[lastCall.client] = lastCall.pre

\* a call inside the window, later than the millisecond the window opened
\* in, was rejected
C20_Witness ==
    /\ lastCall.had
    /\ ~lastCall.result.success
    /\ now > lastCall.pre.resetAt - DEFAULT_CONFIG.windowMs
    /\ requests[lastCall.client] = lastCall.pre

\* invocation h takes a new request in this step
Received(h) ==
    /\ pc[h] \in {"idle", "done"}
    /\ \/ pc'[h] # pc[h]
       \/ method'[h] # method[h]
       \/ body'[h] # body[h]
       \/ resp'[h] # resp[h]

\* the count the caller's record has once the latest call has consumed a unit
CountAfterAdmission ==
    IF lastCall'.had /\ ~(lastCall'.pre.resetAt < now)
    THEN lastCall'.pre.count + 1
    ELSE 1

\* what C21 says of one step of the handlers
C21_Step ==
    /\ \A h \in Handlers :
          /\ (Received(h) /\ method'[h] # "POST") =>
                /\ requests' = requests
                /\ pc'[h] = "done"
                /\ resp'[h].status = (IF method'[h] = "OPTIONS" THEN 200 ELSE 405)
          /\ (Received(h) /\ method'[h] = "POST") =>
                /\ pc'[h] = "awaitRateLimit"
                /\ resp'[h] = NoResp
                /\ lastCall'.client \in DOMAIN requests'
                /\ rl'[h].success = lastCall'.result.success
                /\ rl'[h].success =>
                      requests'[lastCall'.client].count = CountAfterAdmission
                /\ ~rl'[h].success => requests' = requests
          /\ (pc[h] # "done" /\ pc'[h] = "done"
                 /\ resp'[h].status \in {400, 500}) =>
                /\ method[h] = "POST"
                /\ pc[h] \in {"awaitRateLimit", "awaitVerifyProof"}
                /\ rl[h].success
                /\ requests' = requests
    /\ requests' # requests =>
          \E h \in Handlers : Received(h) /\ method'[h] = "POST"

\* C21: the handler consults the rate limiter for every POST before it
\* validates the body, and for no other method: a POST answered 400 or 500
\* was admitted and counted when it arrived, and OPTIONS and other non-POST
\* requests (200 and 405) leave the rate-limit store unchanged.
C21_LimiterBeforeValidation == [][C21_Step]_vars

\* a malformed POST was answered 400 and another request 405, and the
\* store counts exactly one request: the POST
C21_Witness ==
    \E h, g \in Handlers :
        /\ pc[h] = "done" /\ method[h] = "POST" /\ resp[h].status = 400
        /\ rl[h].success
        /\ pc[g] = "done" /\ resp[g].status = 405
        /\ lastCall.client \in DOMAIN requests
        /\ requests[lastCall.client].count = 1

====
